---- MODULE Spec2Model ----
(***************************************************************************)
(* Karachi Couture catalog backend (main.py): the product endpoints, the   *)
(* seed endpoint and the /test diagnostic, served by concurrent workers    *)
(* over one document store.                                                *)
(***************************************************************************)
EXTENDS Integers, Sequences, FiniteSets, TLC

\* ------------------------------------------------------------------ bounds

\* Requests served in one behaviour.
MaxRequests == 3
\* Largest number of collections the database may report to /test.
MaxCollections == 11

\* Threads of the request-serving runtime (sync endpoints run in a thread pool).
Workers == {"w1", "w2"}

\* ------------------------------------------------------------- basic values

\* Optional[T]: None is the empty sequence, a present value x is <<x>>.
None == << >>
Some(x) == <<x>>

Min(a, b) == IF a < b THEN a ELSE b

\* str(ObjectId): the identifier's text form.
Str(oid) == ToString(oid)

\* Query parameters of GET /api/products as the client may send them (an omitted
\* parameter is None).
CategoryParams == {None, Some(""), Some("Men"), Some("Toys"), Some("Shoes")}
LimitParams == {None, Some(-1), Some(0), Some(1), Some(100), Some(101), Some(250)}

\* Bodies of POST /api/products as the client may send them: two that match the
\* Product schema (one repeated by several requests) and one without a title.
Payloads ==
    { [title |-> "Kurta", description |-> "cotton", price |-> 1000,
       category |-> "Men", in_stock |-> TRUE],
      [title |-> "Robot", description |-> "tin", price |-> 500,
       category |-> "Toys", in_stock |-> TRUE, image |-> Some("u")],
      [description |-> "no title", price |-> 700,
       category |-> "Men", in_stock |-> TRUE] }

\* The six sample records of seed_products (prices in hundredths).
items ==
    << [title |-> "Embroidered Lawn Suit - Karachi Breeze", description |-> "d1",
        price |-> 3999, category |-> "Women", in_stock |-> TRUE, image |-> Some("i1")],
       [title |-> "Men's Kurta - Old City Olive", description |-> "d2",
        price |-> 2499, category |-> "Men", in_stock |-> TRUE, image |-> Some("i2")],
       [title |-> "Festive Shalwar Kameez - Eid Edition", description |-> "d3",
        price |-> 5900, category |-> "Women", in_stock |-> TRUE, image |-> Some("i3")],
       [title |-> "Casual Kurti - Sea View Sky", description |-> "d4",
        price |-> 1999, category |-> "Women", in_stock |-> TRUE, image |-> Some("i4")],
       [title |-> "Men's Waistcoat - Saddar Slate", description |-> "d5",
        price |-> 3450, category |-> "Men", in_stock |-> TRUE, image |-> Some("i5")],
       [title |-> "Kids Shalwar Kameez - Mini Maroon", description |-> "d6",
        price |-> 1499, category |-> "Kids", in_stock |-> TRUE, image |-> Some("i6")] >>

\* ------------------------------------------------------------------- state

VARIABLES
    db,       \* the store handle imported from database: TRUE when initialized, FALSE when None
    store,    \* the documents of the "product" collection
    served,   \* the number of requests that have arrived
    pc,       \* per worker: where its handler stands
    req,      \* per worker: the request being served
    loc,      \* per worker: the handler's locals and what it did to the store
    resp,     \* per worker: the response, once the handler has ended
    last      \* the outcome of the request that ended last, when requests come one at a time

vars == <<db, store, served, pc, req, loc, resp, last>>

NoReq == [op |-> "none"]
NoLoc == [existing |-> 0, i |-> 0, calls |-> 0, raised |-> FALSE, touched |-> {}, args |-> << >>]
NoResp == [status |-> 0]
NoLast == [op |-> "none"]

\* Every request a client may send.
AllRequests ==
    { [op |-> "list_products", category |-> c, limit |-> l] :
        c \in CategoryParams, l \in LimitParams }
    \cup { [op |-> "create_product", payload |-> p] : p \in Payloads }
    \cup { [op |-> "seed_products"], [op |-> "test_database"] }

\* The requests sent while two workers serve at the same time: every write, the
\* diagnostic, and one filtered and one unfiltered listing.
Requests ==
    { r \in AllRequests :
        r.op = "list_products" =>
            /\ r.category \in {None, Some("Men")}
            /\ r.limit = None }

Init ==
    /\ db \in BOOLEAN
    /\ store = {}
    /\ served = 0
    /\ pc = [w \in Workers |-> "idle"]
    /\ req = [w \in Workers |-> NoReq]
    /\ loc = [w \in Workers |-> NoLoc]
    /\ resp = [w \in Workers |-> NoResp]
    /\ last = NoLast

\* ------------------------------------------------------- the document store

\* The ObjectId the driver makes for an insert: unique to the insert. Here the
\* serial number of the request and the number of the insert within it.
ObjectId(w) == <<req[w].serial, Cardinality(loc[w].touched) + 1>>

\* Ids of the documents by which two contents of the collection differ.
Delta(old, new) == { d._id : d \in (old \ new) \cup (new \ old) }

\* database.create_document: insert `data` as a new document under a fresh id.
create_document(st, oid, data) ==
    st \cup { [f \in DOMAIN data \cup {"_id"} |-> IF f = "_id" THEN oid ELSE data[f]] }

\* A find filter matches a document when every key of it equals the document's.
Matches(d, filt) == \A k \in DOMAIN filt : k \in DOMAIN d /\ d[k] = filt[k]

\* database.get_documents: the results find(filt) with the given limit may give.
\* No order is imposed, so any `limit` matching documents may come back; a limit
\* of zero is no limit, a negative one is taken by its absolute value.
get_documents(st, filt, limit) ==
    LET m == { d \in st : Matches(d, filt) }
        k == IF limit < 0 THEN 0 - limit ELSE limit
    IN  IF k = 0 \/ Cardinality(m) <= k
        THEN { m }
        ELSE { s \in SUBSET m : Cardinality(s) = k }

\* Collection.count_documents({}).
count_documents(st) == Cardinality(st)

\* ------------------------------------------------------- request lifecycle

\* Request r arrives at the idle worker w; `seq` says that requests are being
\* served one at a time.
Arrive(w, r, seq) ==
    /\ pc[w] = "idle"
    /\ served < MaxRequests
    /\ served' = served + 1
    /\ req' = [req EXCEPT ![w] =
                 r @@ [serial |-> served + 1, seq |-> seq, empty |-> store = {}]]
    /\ pc' = [pc EXCEPT ![w] = r.op]
    /\ loc' = [loc EXCEPT ![w] = NoLoc]
    /\ UNCHANGED <<db, store, resp, last>>

\* A request arrives while other requests may be in flight.
Start(w) == \E r \in Requests : Arrive(w, r, FALSE)

\* A request arrives when no other request is in flight.
StartAlone(w) ==
    /\ \A v \in Workers : pc[v] = "idle"
    /\ \E r \in AllRequests : Arrive(w, r, TRUE)

\* What `last` keeps of a request answered with response r, its locals being l.
Outcome(w, r, l) ==
    [op |-> req[w].op, empty |-> req[w].empty, status |-> r.status,
     message |-> IF "message" \in DOMAIN r THEN r.message ELSE "",
     count |-> IF "count" \in DOMAIN r THEN r.count ELSE 0,
     inserted |-> Cardinality(l.touched)]

\* The handler of worker w ends with response r, having left the locals l.
Finish(w, r, l) ==
    /\ pc' = [pc EXCEPT ![w] = "done"]
    /\ resp' = [resp EXCEPT ![w] = r]
    /\ loc' = [loc EXCEPT ![w] = l]
    /\ UNCHANGED <<db, req, served, last>>

\* The response has been sent; the worker is free again.
Respond(w) ==
    /\ pc[w] = "done"
    /\ pc' = [pc EXCEPT ![w] = "idle"]
    /\ req' = [req EXCEPT ![w] = NoReq]
    /\ loc' = [loc EXCEPT ![w] = NoLoc]
    /\ resp' = [resp EXCEPT ![w] = NoResp]
    /\ last' = IF req[w].seq THEN Outcome(w, resp[w], loc[w]) ELSE last
    /\ UNCHANGED <<db, store, served>>

\* A handler that never sees the handle as missing.
db_is_none_never == FALSE

\* if db is None
db_is_none == db = FALSE

\* HTTPException(status_code=500, detail="Database not configured").
NotConfigured == [status |-> 500, detail |-> "Database not configured"]
\* An exception of the store that no handler catches: the generic server error.
StoreError == [status |-> 500, detail |-> "Internal Server Error"]

\* ------------------------------------------------------------ GET /api/products

\* Python truthiness of an Optional[str]: None and "" are falsy.
Truthy(opt) == opt # None /\ opt[1] # ""

\* filt = {"category": category} if category else {}
ListFilter(category) == IF Truthy(category) THEN [category |-> category[1]] ELSE << >>

\* The parameter default: limit: int = 50.
LimitArg(limit) == IF limit = None THEN 50 ELSE limit[1]

\* A cap that also lifts negative limits to zero.
EffectiveLimitClamped(limit) == IF limit < 0 THEN 0 ELSE Min(limit, 100)

\* min(limit, 100)
EffectiveLimit(limit) == Min(limit, 100)

\* if "_id" in d: d["id"] = str(d.pop("_id"))
Convert(d) ==
    IF "_id" \in DOMAIN d
    THEN [f \in (DOMAIN d \ {"_id"}) \cup {"id"} |-> IF f = "id" THEN Str(d["_id"]) ELSE d[f]]
    ELSE d

list_products(w) ==
    /\ pc[w] = "list_products"
    /\ UNCHANGED store
    /\ IF db_is_none
       THEN Finish(w, NotConfigured, loc[w])
       ELSE LET filt == ListFilter(req[w].category)
                lim == EffectiveLimit(LimitArg(req[w].limit))
                l == [loc[w] EXCEPT !.calls = @ + 1, !.args = <<"product", filt, lim>>]
            IN  \E raised \in BOOLEAN :
                    IF raised
                    THEN Finish(w, StoreError, [l EXCEPT !.raised = TRUE])
                    ELSE \E docs \in get_documents(store, filt, lim) :
                            Finish(w, [status |-> 200, body |-> { Convert(d) : d \in docs }], l)

\* ----------------------------------------------------------- POST /api/products

\* The Product schema (schemas.Product): the title is required.
Valid(product) == "title" \in DOMAIN product

\* The 422 the framework answers when the body does not match ProductCreate.
ValidationError(product) == [status |-> 422, detail |-> {"title"} \ DOMAIN product]

\* product.model_dump(): every field of ProductCreate, image defaulting to None.
model_dump(product) ==
    [f \in DOMAIN product \cup {"image"} |-> IF f \in DOMAIN product THEN product[f] ELSE None]

\* A body taken as a plain dict: nothing is validated.
ProductCreateAny(product) == TRUE

\* class ProductCreate(Product): the Product fields plus the optional image, so
\* a body is accepted when it is a valid Product.
ProductCreate(product) == Valid(product)

\* An answer that drops the id create_document returned.
CreateResponseNoId(new_id) == [status |-> 200, id |-> "", ok |-> TRUE]

\* return {"id": new_id, "ok": True}
CreateResponse(new_id) == [status |-> 200, id |-> new_id, ok |-> TRUE]

\* The framework validates the body against ProductCreate before the handler runs.
create_product(w) ==
    /\ pc[w] = "create_product"
    /\ IF ~ProductCreate(req[w].payload)
       THEN /\ Finish(w, ValidationError(req[w].payload), loc[w])
            /\ UNCHANGED store
       ELSE IF db_is_none
       THEN /\ Finish(w, NotConfigured, loc[w])
            /\ UNCHANGED store
       ELSE LET data == model_dump(req[w].payload)
                l == [loc[w] EXCEPT !.calls = @ + 1, !.args = <<"product", data>>]
            IN  \E raised \in BOOLEAN :
                    IF raised
                    THEN /\ Finish(w, StoreError, [l EXCEPT !.raised = TRUE])
                         /\ UNCHANGED store
                    ELSE LET new_id == ObjectId(w)
                             after == create_document(store, new_id, data)
                         IN  /\ store' = after
                             /\ Finish(w, CreateResponse(Str(new_id)),
                                       [l EXCEPT !.touched = @ \cup Delta(store, after)])

\* ---------------------------------------------------------------- POST /api/seed

\* A guard that never takes the early return.
SeedGuardNever(existing) == existing < 0

\* if existing > 0: return the no-op answer
SeedGuard(existing) == existing > 0

\* An insert that is skipped when a record of that title is already stored.
SeedItemInsertIfAbsent(st, oid, i) ==
    IF \E d \in st : d.title = items[i].title THEN st ELSE create_document(st, oid, items[i])

\* An insert that replaces the stored records of that title.
SeedItemInsertReplace(st, oid, i) ==
    create_document({ d \in st : d.title # items[i].title }, oid, items[i])

\* create_document("product", item) for the i-th sample record
SeedItemInsert(st, oid, i) == create_document(st, oid, items[i])

\* The db check, the count and the early return.
seed_check(w) ==
    /\ pc[w] = "seed_products"
    /\ UNCHANGED store
    /\ IF db_is_none
       THEN Finish(w, NotConfigured, loc[w])
       ELSE \E raised \in BOOLEAN :
               LET existing == count_documents(store)
                   l == [loc[w] EXCEPT !.calls = @ + 1, !.existing = existing]
               IN  IF raised
                   THEN Finish(w, StoreError, [l EXCEPT !.raised = TRUE])
                   ELSE IF SeedGuard(existing)
                   THEN Finish(w, [status |-> 200, ok |-> TRUE,
                                   message |-> "Products already exist",
                                   count |-> existing], l)
                   ELSE /\ pc' = [pc EXCEPT ![w] = "seed_insert"]
                        /\ loc' = [loc EXCEPT ![w] = [l EXCEPT !.i = 1]]
                        /\ UNCHANGED <<db, req, resp, served, last>>

\* A loop that takes back its inserts when one of them raises.
seed_insert_rollback(w) ==
    /\ pc[w] = "seed_insert"
    /\ \E raised \in BOOLEAN :
          LET l == [loc[w] EXCEPT !.calls = @ + 1]
          IN  IF raised
              THEN /\ Finish(w, StoreError, [l EXCEPT !.raised = TRUE])
                   /\ store' = { d \in store : d._id \notin loc[w].touched }
              ELSE LET after == create_document(store, ObjectId(w), items[loc[w].i])
                   IN  /\ store' = after
                       /\ pc' = [pc EXCEPT ![w] =
                                   IF loc[w].i = Len(items) THEN "seed_count" ELSE "seed_insert"]
                       /\ loc' = [loc EXCEPT ![w] =
                                   [l EXCEPT !.i = @ + 1,
                                             !.touched = @ \cup Delta(store, after)]]
                       /\ UNCHANGED <<db, req, resp, served, last>>

\* One turn of the loop over items.
seed_insert(w) ==
    /\ pc[w] = "seed_insert"
    /\ \E raised \in BOOLEAN :
          LET l == [loc[w] EXCEPT !.calls = @ + 1]
          IN  IF raised
              THEN /\ Finish(w, StoreError, [l EXCEPT !.raised = TRUE])
                   /\ UNCHANGED store
              ELSE LET after == SeedItemInsert(store, ObjectId(w), loc[w].i)
                   IN  /\ store' = after
                       /\ pc' = [pc EXCEPT ![w] =
                                   IF loc[w].i = Len(items) THEN "seed_count" ELSE "seed_insert"]
                       /\ loc' = [loc EXCEPT ![w] =
                                   [l EXCEPT !.i = @ + 1,
                                             !.touched = @ \cup Delta(store, after)]]
                       /\ UNCHANGED <<db, req, resp, served, last>>

\* The count after the loop, and the answer.
seed_count(w) ==
    /\ pc[w] = "seed_count"
    /\ UNCHANGED store
    /\ \E raised \in BOOLEAN :
          LET l == [loc[w] EXCEPT !.calls = @ + 1]
          IN  IF raised
              THEN Finish(w, StoreError, [l EXCEPT !.raised = TRUE])
              ELSE Finish(w, [status |-> 200, ok |-> TRUE,
                              message |-> "Seeded sample Karachi styles",
                              count |-> count_documents(store)], l)

\* -------------------------------------------------------------------- GET /test

\* The whole listing, not cut.
FirstTenUncut(collections) == collections

\* collections[:10]
FirstTen(collections) == SubSeq(collections, 1, Min(Len(collections), 10))

\* The environment (DATABASE_URL, DATABASE_NAME set or not) and the database's
\* collections are whatever they are when the request is served.
test_database(w) ==
    /\ pc[w] = "test_database"
    /\ UNCHANGED store
    /\ \E url \in BOOLEAN, name \in BOOLEAN :
          LET env == [database_url |-> IF url THEN "Set" ELSE "Not Set",
                      database_name |-> IF name THEN "Set" ELSE "Not Set"]
              response == [status |-> 200, backend |-> "Running",
                           database |-> "Not Available",
                           connection_status |-> "Not Connected",
                           collections |-> << >>] @@ env
          IN  IF db_is_none
              THEN Finish(w, [response EXCEPT !.database = "Available but not initialized"],
                          loc[w])
              ELSE LET l == [loc[w] EXCEPT !.calls = @ + 1]
                       connected == [response EXCEPT !.connection_status = "Connected"]
                   IN  \E raised \in BOOLEAN :
                         IF raised
                         THEN Finish(w, [connected EXCEPT !.database = "Connected but Error"],
                                     [l EXCEPT !.raised = TRUE])
                         ELSE \E n \in {0, MaxCollections - 1, MaxCollections} :
                                 Finish(w, [connected EXCEPT
                                              !.database = "Connected & Working",
                                              !.collections = FirstTen([k \in 1..n |-> k])], l)

\* ------------------------------------------------------------- specification

Handle(w) ==
    \/ list_products(w)
    \/ create_product(w)
    \/ seed_check(w)
    \/ seed_insert(w)
    \/ seed_count(w)
    \/ test_database(w)
    \/ Respond(w)

\* Two workers serve requests at the same time.
Next == \E w \in Workers : Start(w) \/ Handle(w)

Spec == Init /\ [][Next]_vars

\* Requests come one at a time: the next one arrives when the last has been answered.
NextSeq == \E w \in Workers : StartAlone(w) \/ Handle(w)

SpecSeq == Init /\ [][NextSeq]_vars

\* ------------------------------------------------------------------- claims

\* The handler of worker w has ended and its response is at hand.
Done(w) == pc[w] = "done"

\* The handler of worker w ended in an error.
Failed(w) == Done(w) /\ resp[w].status # 200

\* A stored document without its id.
Fields(d) == [f \in DOMAIN d \ {"_id"} |-> d[f]]

\* The stored documents that the request of worker w inserted.
OwnDocs(w) == { d \in store : d._id \in loc[w].touched }

Seeded == "Seeded sample Karachi styles"
AlreadyExist == "Products already exist"

\* Worker w has answered a seed call, and the call answered just before it was a
\* seed call that began on an empty store; no other call ran in between.
SecondSeedAfterFirst(w) ==
    /\ Done(w)
    /\ req[w].op = "seed_products"
    /\ resp[w].status = 200
    /\ last.op = "seed_products"
    /\ last.empty
    /\ last.status = 200

\* C1. Two seed calls in sequence, nothing in between, the first on an empty
\* store, both answered: the first has inserted exactly 6 records and answered
\* count 6; the second inserts nothing and answers count 6 with the message
\* 'Products already exist'.
C1_SeedTwiceInSequence ==
    \A w \in Workers :
        SecondSeedAfterFirst(w) =>
            /\ last.inserted = 6
            /\ last.count = 6
            /\ last.message = Seeded
            /\ loc[w].touched = {}
            /\ resp[w].count = 6
            /\ resp[w].message = AlreadyExist
            /\ Cardinality(store) = 6

C1_Witness == \E w \in Workers : SecondSeedAfterFirst(w)

\* The seed call of worker w has passed its emptiness check and is inserting,
\* or has inserted.
PastCheck(w) == req[w].op = "seed_products" /\ loc[w].i >= 1

\* The stored documents that are copies of a sample record.
SampleDocs == { d \in store : \E j \in 1..Len(items) : Fields(d) = items[j] }

\* C2. The emptiness check and the inserts of seed_products are not atomic: two
\* calls that have both passed the check (each counted 0 documents) both insert,
\* neither's inserts replacing or suppressing the other's, and when both have
\* answered the store holds 12 sample records.
C2_SeedRaceInsertsTwice ==
    \A w, v \in Workers :
        (w # v /\ PastCheck(w) /\ PastCheck(v)) =>
            /\ loc[w].existing = 0
            /\ loc[v].existing = 0
            /\ loc[w].touched \cap loc[v].touched = {}
            /\ Cardinality(OwnDocs(w) \cup OwnDocs(v)) = (loc[w].i - 1) + (loc[v].i - 1)
            /\ (Done(w) /\ Done(v) /\ resp[w].status = 200 /\ resp[v].status = 200) =>
                   /\ resp[w].message = Seeded
                   /\ resp[v].message = Seeded
                   /\ Cardinality(SampleDocs) = 12

C2_Witness ==
    \E w, v \in Workers :
        /\ w # v
        /\ PastCheck(w) /\ PastCheck(v)
        /\ Done(w) /\ Done(v)
        /\ resp[w].status = 200 /\ resp[v].status = 200
        /\ Cardinality(store) = 12

\* C3, as claimed. A list, create or seed call that ends in an error has
\* inserted nothing.
C3_AllOrNothing ==
    \A w \in Workers :
        (Failed(w) /\ req[w].op \in {"list_products", "create_product", "seed_products"}) =>
            loc[w].touched = {}

\* C3, amended. A list or create call that ends in an error has inserted
\* nothing; a seed call that ends in an error has inserted the sample records
\* whose insert came before the store call that raised, and they stay stored:
\* none when the handle is missing or the first count raises, the first k-1
\* when the k-th insert raises, all six when the final count raises.
C3_FailedSeedLeavesPrefix ==
    \A w \in Workers :
        Failed(w) =>
            /\ req[w].op \in {"list_products", "create_product"} => loc[w].touched = {}
            /\ req[w].op = "seed_products" =>
                  LET k == Cardinality(loc[w].touched)
                  IN  /\ k = (IF loc[w].calls <= 1 THEN 0 ELSE loc[w].calls - 2)
                      /\ k <= 6
                      /\ Cardinality(OwnDocs(w)) = k
                      /\ { Fields(d) : d \in OwnDocs(w) } = { items[j] : j \in 1..k }

C3_Witness ==
    \E w \in Workers :
        /\ Failed(w)
        /\ req[w].op = "seed_products"
        /\ Cardinality(OwnDocs(w)) \in 1..5

\* C4. With the store handle missing (db is None), list_products, create_product
\* (called with a body that passed validation) and seed_products answer 500
\* 'Database not configured', make no store call and leave the store as it was.
C4_NotConfigured ==
    db = FALSE =>
        /\ store = {}
        /\ \A w \in Workers :
              /\ pc[w] \notin {"seed_insert", "seed_count"}
              /\ ( /\ Done(w)
                   /\ \/ req[w].op \in {"list_products", "seed_products"}
                      \/ req[w].op = "create_product" /\ Valid(req[w].payload) ) =>
                     /\ resp[w] = NotConfigured
                     /\ loc[w].calls = 0
                     /\ loc[w].touched = {}

C4_Witness ==
    /\ db = FALSE
    /\ \E w, v \in Workers :
          /\ Done(w) /\ req[w].op = "create_product" /\ resp[w] = NotConfigured
          /\ Done(v) /\ req[v].op = "seed_products" /\ resp[v] = NotConfigured

\* The limit the claim expects the store to be handed for a limit parameter.
LimitHanded(limit) ==
    IF limit = None THEN 50 ELSE IF limit[1] > 100 THEN 100 ELSE limit[1]

\* C5. list_products hands the store min(limit, 100): 100 for every limit above
\* 100, the limit itself for every limit up to 100 (zero and negatives too), 50
\* when the limit is omitted; no limit is rejected.
C5_LimitCappedAt100 ==
    \A w \in Workers :
        (Done(w) /\ req[w].op = "list_products" /\ db) =>
            /\ loc[w].calls = 1
            /\ loc[w].args[3] = LimitHanded(req[w].limit)
            /\ resp[w].status \notin {400, 422}

C5_Witness ==
    \E w \in Workers :
        /\ Done(w)
        /\ req[w].op = "list_products"
        /\ req[w].limit = Some(250)
        /\ loc[w].calls = 1
        /\ loc[w].args[3] = 100

\* C6, as claimed. For every category filter value given to list_products, the
\* empty string too, every returned record has exactly that category, and a
\* value no stored record carries gives an empty result.
C6_CategoryFilterExact ==
    \A w \in Workers :
        (Done(w) /\ req[w].op = "list_products" /\ resp[w].status = 200
                 /\ req[w].category # None) =>
            /\ \A d \in resp[w].body : d.category = req[w].category[1]
            /\ (\A d \in store : d.category # req[w].category[1]) => resp[w].body = {}

\* C7. A create_product call that succeeds has added exactly one record, holding
\* the body's fields, and answers a non-empty id that is the id of that record
\* and of no other stored record, whatever else was stored before (a record
\* with the same fields too) and whatever other calls run beside it.
C7_CreateAddsOneFreshRecord ==
    \A w \in Workers :
        (Done(w) /\ req[w].op = "create_product" /\ resp[w].status = 200) =>
            /\ resp[w].id # ""
            /\ Cardinality(loc[w].touched) = 1
            /\ Cardinality({ d \in store : Str(d._id) = resp[w].id }) = 1
            /\ \A d \in store :
                  Str(d._id) = resp[w].id =>
                      /\ d._id \in loc[w].touched
                      /\ Fields(d) = model_dump(req[w].payload)

C7_Witness ==
    \E w \in Workers :
        /\ Done(w) /\ req[w].op = "create_product" /\ resp[w].status = 200
        /\ \E d \in store :
              /\ d._id \notin loc[w].touched
              /\ Fields(d) = model_dump(req[w].payload)

\* C8. A create_product request whose body fails validation is answered 422
\* before any store call: nothing is inserted, with the store handle
\* initialized or missing.
C8_InvalidRejectedBeforeStore ==
    \A w \in Workers :
        (Done(w) /\ req[w].op = "create_product" /\ ~Valid(req[w].payload)) =>
            /\ resp[w].status = 422
            /\ loc[w].calls = 0
            /\ loc[w].touched = {}

C8_Witness ==
    /\ db
    /\ store # {}
    /\ \E w \in Workers :
          /\ Done(w) /\ req[w].op = "create_product" /\ ~Valid(req[w].payload)
          /\ resp[w].status = 422

\* C9. test_database never ends in an error: with the handle missing, the
\* database answering, or list_collection_names raising, it answers 200 with
\* the diagnostic object, reports the raise in the database field, gives at
\* most 10 collection names and inserts or removes nothing.
C9_DiagnosticNeverFails ==
    \A w \in Workers :
        (Done(w) /\ req[w].op = "test_database") =>
            /\ resp[w].status = 200
            /\ {"backend", "database", "database_url", "database_name",
                "connection_status", "collections"} \subseteq DOMAIN resp[w]
            /\ Len(resp[w].collections) <= 10
            /\ loc[w].touched = {}
            /\ loc[w].raised => resp[w].database = "Connected but Error"
            /\ db = FALSE => (loc[w].calls = 0
                              /\ resp[w].database = "Available but not initialized")

C9_Witness ==
    \E w, v \in Workers :
        /\ Done(w) /\ req[w].op = "test_database" /\ loc[w].raised
        /\ Done(v) /\ req[v].op = "test_database" /\ Len(resp[v].collections) = 10

\* No two stored documents share an id.
IdsUnique == \A d, e \in store : d._id = e._id => d = e

\* C10. No product record is ever updated or deleted: every step keeps every
\* stored record as it is, ids stay unique, and a step that adds a record is the
\* insert of a create_product or of a seed_products call.
C10_StoreOnlyGrows ==
    /\ []IdsUnique
    /\ [][ /\ store \subseteq store'
           /\ store' # store =>
                 \E w \in Workers :
                    /\ pc[w] \in {"create_product", "seed_insert"}
                    /\ req[w].op \in {"create_product", "seed_products"}
                    /\ store' \ store = { d \in store' : d._id \in loc'[w].touched \ loc[w].touched } ]_vars

C10_Witness ==
    /\ Cardinality(store) >= 7
    /\ \E w \in Workers : Done(w) /\ req[w].op = "list_products" /\ resp[w].status = 200
    /\ \E d \in store : d.title = "Kurta"
====
